---- MODULE Spec2Model ----
(***************************************************************************)
(* Model of the rewriting transport of lib/web/app/transport.go: the       *)
(* shared candidate server list, the mutex that guards it, the failover    *)
(* loop of DialContext, DialWebsocket and RoundTrip with rewriteRequest,   *)
(* and of the interactive session of lib/client/kubesession.go.            *)
(*                                                                         *)
(* Specifications:                                                         *)
(*   Spec         the transport in use by concurrent callers               *)
(*   SpecRewrite  rewriteRequest applied to a request, and applied again   *)
(*   SpecNew      newTransport on a configuration                          *)
(*   SpecSession  NewKubeSession, the duties it starts, Close and Wait     *)
(*   SpecRequest  executeAccessRequest and waitForRequestResolution of tsh *)
(*                                                                         *)
(* Go indexes are 0-based, the sequences here are 1-based: the Go loop     *)
(* "for i := len(servers)-1; i >= 0; i--" is modelled with i running from  *)
(* Len(servers) down to 1.                                                 *)
(***************************************************************************)
EXTENDS Integers, Sequences, FiniteSets, TLC

\* ------------------------------------------------------------------ bounds

\* Longest candidate server list a transport is constructed with.
MaxServers == 3

\* Number of calls (DialContext, DialWebsocket, RoundTrip) made on the
\* transport during its lifetime.
MaxCalls == 3

\* Longest Cookie header, in cookies, of a request given to rewriteRequest.
MaxCookies == 4

\* Events that reach a session from outside during its life: units typed,
\* resizes of the local terminal, resize events pushed by the remote side,
\* the end of the remote stream, ticks, the cancellation of the context.
MaxEvents == 2

\* Events of the access request watcher during a call of
\* executeAccessRequest.
MaxWatch == 3

\* The goroutines that use the transport concurrently.
Callers == {"g1", "g2"}

\* ------------------------------------------------------- program constants

\* constants.APIDomain, the dummy host the forwarder is given.
APIDomain == "teleport.cluster.local"

\* The application session cookie and the auth state cookie.
CookieName == "grv_app_session"
AuthStateCookieName == "grv_app_auth_state"

\* ---------------------------------------------------------------- helpers

Range(s) == {s[k] : k \in 1..Len(s)}

Reverse(s) == [k \in 1..Len(s) |-> s[Len(s) + 1 - k]]

Prefix(s, n) == SubSeq(s, 1, n)

RECURSIVE FilterSeq(_, _)
\* The elements of s that are not in the set drop, in their order in s.
FilterSeq(s, drop) ==
    IF s = <<>> THEN <<>>
    ELSE IF Head(s) \in drop THEN FilterSeq(Tail(s), drop)
         ELSE <<Head(s)>> \o FilterSeq(Tail(s), drop)

\* ------------------------------------------------------------------ state

VARIABLES
    initial,   \* transportConfig.servers as given to newTransport
    servers,   \* t.c.servers, the shared candidate list
    mu,        \* t.mu: TRUE when locked
    pc,        \* position of each goroutine
    op,        \* the call a goroutine is making
    i,         \* the loop index of DialContext (1-based)
    cur,       \* the server being dialled, t.c.servers[i]
    err,       \* the outcome of dialAppServer in this iteration
    dres,      \* what DialContext returned to its caller
    res,       \* what the call returned
    inbound,   \* the request as the caller of RoundTrip supplied it
    req,       \* the request RoundTrip is about to hand to t.tr
    ctxDone,   \* whether the call's context is cancelled or past its deadline
    start,     \* history: the list when the call's loop started
    tried,     \* history: the attempts made by the call, in order
    final,     \* history: the list when DialContext returned
    pruneLog,  \* history: every removal made on the shared list
    ncalls,    \* number of calls started so far
    rw,        \* SpecRewrite: a request, rewritten once and twice
    ctor,      \* SpecNew: a call of newTransport
    kube,      \* SpecSession: the call of NewKubeSession
    sp,        \* position of each duty of the session
    ext,       \* the callers of Close and Wait
    sig,       \* close, the utils.CloseBroadcaster
    wg,        \* closeWait, the counter of the sync.WaitGroup
    term,      \* the local terminal
    strm,      \* the session stream
    stdin,     \* what the local terminal has to read
    mfa,       \* the presence stream, its ticker and the context
    nenv,      \* number of events that have reached the session from outside
    ar         \* SpecRequest: a call of executeAccessRequest

\* The variables of the transport in use.
tvars == <<initial, servers, mu, pc, op, i, cur, err, dres, res, inbound, req,
           ctxDone, start, tried, final, pruneLog, ncalls>>

\* The variables of the other specifications.
svars == <<kube, sp, ext, sig, wg, term, strm, stdin, mfa, nenv>>

xvars == <<rw, ctor, svars, ar>>

vars == <<tvars, xvars>>

\* Outcomes of a call through the reverse tunnel.
Outcomes == {"ok", "connproblem", "other"}

NoReq == [scheme |-> "", host |-> "", xff |-> "", remote |-> "", cookies |-> <<>>]

\* One cookie-pair of a Cookie header: its name and the form of its value
\* (a plain token, a token in double quotes, or bytes no cookie may hold).
Cookie(n, f) == [name |-> n, form |-> f]

\* The inbound requests a caller may hand to RoundTrip: any scheme and host,
\* with or without a forwarding header of the client's own, with and without
\* the two cookies the transport strips.
Requests ==
    [scheme : {"http", "https"},
     host : {"app.example.com", APIDomain},
     xff : {"", "6.6.6.6"},
     remote : {"10.0.0.7"},
     cookies : {<<>>,
                <<Cookie(CookieName, "plain"), Cookie("lang", "plain"),
                  Cookie(AuthStateCookieName, "plain")>>}]

\* ----------------------------------------------------------- pure functions

\* dialAppServer: GetSite, then Dial through the cluster client; the first
\* error is returned wrapped (trace.Wrap keeps the error class).
dialAppServer(site, dial) == IF site # "ok" THEN site ELSE dial

\* trace.IsConnectionProblem
IsConnectionProblemNever(e) == FALSE
IsConnectionProblemAny(e) == e # "ok"
IsConnectionProblem(e) == e = "connproblem"

\* len(t.c.servers) - 1, the index the loop starts from
InitIndexFirst(s) == IF Len(s) = 0 THEN 0 ELSE 1
InitIndex(s) == Len(s)

\* i--
NextIndexSkip(k) == k - 2
NextIndex(k) == k - 1

\* append(t.c.servers[:i], t.c.servers[i+1:]...)
RemoveAtKeep(s, k) == s
RemoveAtBefore(s, k) ==
    IF k > 1 THEN SubSeq(s, 1, k - 2) \o SubSeq(s, k, Len(s))
    ELSE SubSeq(s, 2, Len(s))
RemoveAt(s, k) == SubSeq(s, 1, k - 1) \o SubSeq(s, k + 1, Len(s))

\* t.mu.Lock() can proceed
NoMutex(m) == TRUE
CanLock(m) == ~m

RECURSIVE Cookies(_)
\* r.Cookies(): the cookies parsed from the Cookie header, in order. A pair
\* that is no valid cookie is left out, a quoted value loses its quotes.
Cookies(h) ==
    IF h = <<>> THEN <<>>
    ELSE IF Head(h).form = "bad" THEN Cookies(Tail(h))
         ELSE <<Cookie(Head(h).name, "plain")>> \o Cookies(Tail(h))

\* The test of the cookie loop: the cookie is added back.
Forwardable(c) == ~(c.name = CookieName \/ c.name = AuthStateCookieName)

RECURSIVE AddCookies(_, _)
\* r.AddCookie(cookie) for each cookie of cs in turn: "name=value" is appended
\* to the Cookie header h.
AddCookies(h, cs) ==
    IF cs = <<>> THEN h
    ELSE AddCookies(Append(h, Cookie(Head(cs).name, Head(cs).form)), Tail(cs))

\* rewriteRequest: dummy scheme and host, own forwarding headers, the Cookie
\* header deleted and rebuilt from the parsed cookies without the session
\* cookie and the auth state cookie.
rewriteRequestNoHost(r) ==
    [r EXCEPT !.scheme = "https",
              !.xff = r.remote,
              !.cookies = AddCookies(<<>>, SelectSeq(Cookies(r.cookies), Forwardable))]
rewriteRequestKeepsAuthState(r) ==
    [r EXCEPT !.scheme = "https",
              !.host = APIDomain,
              !.xff = r.remote,
              !.cookies = AddCookies(<<>>,
                   SelectSeq(Cookies(r.cookies), LAMBDA c : c.name # CookieName))]
rewriteRequestNoDel(r) ==
    [r EXCEPT !.scheme = "https",
              !.host = APIDomain,
              !.xff = r.remote,
              !.cookies = AddCookies(r.cookies,
                   SelectSeq(Cookies(r.cookies), Forwardable))]
rewriteRequest(r) ==
    [r EXCEPT !.scheme = "https",
              !.host = APIDomain,
              !.xff = r.remote,
              !.cookies = AddCookies(<<>>, SelectSeq(Cookies(r.cookies), Forwardable))]

\* RoundTrip, when t.tr.RoundTrip(r) returned an error: where the caller's
\* goroutine is next. It returns (nil, trace.Wrap(err)): the call is over.
OnRoundTripErrorRetry == "forward"
OnRoundTripError == "idle"

\* What RoundTrip returns, given what the dial of the underlying round trip
\* returned and, if it connected, what the upstream exchange gave.
RoundTripResult(d, upstream) == IF d = "conn" THEN upstream ELSE d

\* ------------------------------------------------------------------- Init

NoRw == [orig |-> NoReq, once |-> NoReq, twice |-> NoReq, n |-> 0]

NoConfig ==
    [proxyClient |-> FALSE, accessPoint |-> "nil", cipherSuites |-> 0,
     identity |-> "nil", servers |-> 0, ws |-> "nil", clusterName |-> "",
     defaults |-> "ok"]

NoTLSConfig == [set |-> FALSE]

NoTransport == [set |-> FALSE]

NoCtor ==
    [c |-> NoConfig, at |-> "none", t |-> NoTransport, ret |-> NoTransport,
     err |-> "nil"]

\* The goroutines of a session: the terminal closer, the remote resize
\* applier, the local resize forwarder, the presence loop (handleMFA), the
\* remote-to-local copy and the input loop.
Duties == {"closer", "applier", "forwarder", "mfa", "copy", "input"}

\* The goroutine that holds the session and calls Close or Wait on it.
Externals == {"e1"}

NoKube ==
    [at |-> "none", attached |-> FALSE, mfaRequired |-> FALSE,
     fail |-> "none", ret |-> "none"]

NoExt == "idle"

NoSig == [closed |-> FALSE, calls |-> 0, panic |-> FALSE]

NoTerm ==
    [made |-> FALSE, attached |-> FALSE, raw |-> FALSE, closes |-> 0,
     subs |-> "none", events |-> 0, resizes |-> 0, applied |-> <<>>,
     out |-> <<>>]

NoStream ==
    [handshake |-> FALSE, remote |-> "none", mfaRequired |-> FALSE,
     rq |-> "idle", pushed |-> 0, inflight |-> 0,
     ctl |-> <<>>, wr |-> <<>>]

NoStdin == [pending |-> "none", typed |-> 0, last |-> "none"]

NoMFA ==
    [open |-> FALSE, tick |-> FALSE, ticks |-> 0, ctxDone |-> FALSE,
     log |-> <<>>, err |-> "nil", shown |-> FALSE]

NoResult == [kind |-> "none", state |-> ""]

NoEvent == [type |-> "none", name |-> "", state |-> "", v3 |-> FALSE]

NoAR ==
    [mode |-> "none", noWait |-> FALSE, main |-> "off", w |-> "off",
     req |-> "none", q |-> <<>>, wdone |-> FALSE, missed |-> FALSE,
     nev |-> 0, last |-> NoEvent, wres |-> NoResult, ret |-> NoResult]

\* The session of a construction that has not started.
SessionIdle ==
    /\ kube = NoKube
    /\ sp = [d \in Duties |-> "off"]
    /\ ext = [e \in Externals |-> NoExt]
    /\ sig = NoSig
    /\ wg = 0
    /\ term = NoTerm
    /\ strm = NoStream
    /\ stdin = NoStdin
    /\ mfa = NoMFA
    /\ nenv = 0

\* The other specifications are not running.
XIdle ==
    /\ rw = NoRw
    /\ ctor = NoCtor
    /\ SessionIdle
    /\ ar = NoAR

Init ==
    /\ \E n \in 1..MaxServers : initial = [k \in 1..n |-> k]
    /\ servers = initial
    /\ mu = FALSE
    /\ pc = [c \in Callers |-> "idle"]
    /\ op = [c \in Callers |-> "none"]
    /\ i = [c \in Callers |-> 0]
    /\ cur = [c \in Callers |-> 0]
    /\ err = [c \in Callers |-> "none"]
    /\ dres = [c \in Callers |-> "none"]
    /\ res = [c \in Callers |-> "none"]
    /\ inbound = [c \in Callers |-> NoReq]
    /\ req = [c \in Callers |-> NoReq]
    /\ ctxDone = [c \in Callers |-> FALSE]
    /\ start = [c \in Callers |-> <<>>]
    /\ tried = [c \in Callers |-> <<>>]
    /\ final = [c \in Callers |-> <<>>]
    /\ pruneLog = <<>>
    /\ ncalls = 0
    /\ XIdle

\* ---------------------------------------------------------------- actions

\* The start of every call: a fresh frame, no result yet. The context of
\* the call is live; CancelCtx may end it at any later moment, also before
\* the call has done anything.
Begin(c, o) ==
    /\ pc[c] = "idle"
    /\ ncalls < MaxCalls
    /\ ncalls' = ncalls + 1
    /\ op' = [op EXCEPT ![c] = o]
    /\ res' = [res EXCEPT ![c] = "none"]
    /\ UNCHANGED <<initial, servers, mu, i, cur, err, dres, ctxDone, start,
                   tried, final, pruneLog>>
    /\ UNCHANGED xvars

\* A caller enters DialContext.
CallDialContext(c) ==
    /\ Begin(c, "DialContext")
    /\ pc' = [pc EXCEPT ![c] = "lock"]
    /\ UNCHANGED <<inbound, req>>

\* DialWebsocket calls DialContext with context.Background().
CallDialWebsocket(c) ==
    /\ Begin(c, "DialWebsocket")
    /\ pc' = [pc EXCEPT ![c] = "lock"]
    /\ UNCHANGED <<inbound, req>>

\* RoundTrip: rewriteRequest(r), which never fails.
RoundTrip(c) ==
    \E r \in Requests :
        /\ Begin(c, "RoundTrip")
        /\ inbound' = [inbound EXCEPT ![c] = r]
        /\ req' = [req EXCEPT ![c] = rewriteRequest(r)]
        /\ pc' = [pc EXCEPT ![c] = "forward"]

\* RoundTrip: t.tr.RoundTrip(r); the underlying transport dials the
\* connection for the request through t.DialContext.
Forward(c) ==
    /\ pc[c] = "forward"
    /\ pc' = [pc EXCEPT ![c] = "lock"]
    /\ inbound' = [inbound EXCEPT ![c] = NoReq]
    /\ req' = [req EXCEPT ![c] = NoReq]
    /\ UNCHANGED <<initial, servers, mu, op, i, cur, err, dres, res,
                   ctxDone, start, tried, final, pruneLog, ncalls>>
    /\ UNCHANGED xvars

\* DialContext: t.mu.Lock(), then the loop is entered at the last index.
Lock(c) ==
    /\ pc[c] = "lock"
    /\ CanLock(mu)
    /\ mu' = TRUE
    /\ i' = [i EXCEPT ![c] = InitIndex(servers)]
    /\ start' = [start EXCEPT ![c] = servers]
    /\ pc' = [pc EXCEPT ![c] = "loop"]
    /\ UNCHANGED <<initial, servers, op, cur, err, dres, res, inbound, req, ctxDone,
                   tried, final, pruneLog, ncalls>>
    /\ UNCHANGED xvars

\* DialContext: one dialAppServer(..., t.c.servers[i]) of the loop. An index
\* outside the list is a run-time panic; the deferred Unlock runs.
Attempt(c) ==
    /\ pc[c] = "loop"
    /\ i[c] >= 1
    /\ IF i[c] > Len(servers)
       THEN /\ pc' = [pc EXCEPT ![c] = "panic"]
            /\ mu' = FALSE
            /\ UNCHANGED <<cur, err, tried>>
       ELSE \E site \in Outcomes, dial \in Outcomes :
            /\ cur' = [cur EXCEPT ![c] = servers[i[c]]]
            /\ err' = [err EXCEPT ![c] = dialAppServer(site, dial)]
            /\ tried' = [tried EXCEPT ![c] = Append(@,
                           [server |-> servers[i[c]],
                            outcome |-> dialAppServer(site, dial),
                            top |-> servers[Len(servers)],
                            ctxDone |-> ctxDone[c]])]
            /\ pc' = [pc EXCEPT ![c] = "handle"]
            /\ mu' = mu
    /\ UNCHANGED <<initial, servers, op, i, dres, res, inbound, req, ctxDone, start,
                   final, pruneLog, ncalls>>
    /\ UNCHANGED xvars

\* DialContext: a connection problem; the failed server is removed from the
\* list and the loop continues.
Prune(c) ==
    /\ pc[c] = "handle"
    /\ err[c] # "ok"
    /\ IsConnectionProblem(err[c])
    /\ IF i[c] > Len(servers)
       THEN /\ pc' = [pc EXCEPT ![c] = "panic"]
            /\ mu' = FALSE
            /\ UNCHANGED <<servers, i, pruneLog>>
       ELSE /\ servers' = RemoveAt(servers, i[c])
            /\ pruneLog' = Append(pruneLog,
                  [failed |-> cur[c],
                   cause |-> err[c],
                   gone |-> {x \in Range(servers) :
                               x \notin Range(RemoveAt(servers, i[c]))},
                   shrink |-> Len(servers) - Len(RemoveAt(servers, i[c]))])
            /\ i' = [i EXCEPT ![c] = NextIndex(i[c])]
            /\ pc' = [pc EXCEPT ![c] = "loop"]
            /\ mu' = mu
    /\ UNCHANGED <<initial, op, cur, err, dres, res, inbound, req, ctxDone, start,
                   tried, final, ncalls>>
    /\ UNCHANGED xvars

\* DialContext: any other error is returned at once (deferred Unlock).
Abort(c) ==
    /\ pc[c] = "handle"
    /\ err[c] # "ok"
    /\ ~IsConnectionProblem(err[c])
    /\ dres' = [dres EXCEPT ![c] = err[c]]
    /\ final' = [final EXCEPT ![c] = servers]
    /\ mu' = FALSE
    /\ pc' = [pc EXCEPT ![c] = "ret"]
    /\ UNCHANGED <<initial, servers, op, i, cur, err, res, inbound, req, ctxDone,
                   start, tried, pruneLog, ncalls>>
    /\ UNCHANGED xvars

\* DialContext: the dial succeeded, the connection is returned.
Connected(c) ==
    /\ pc[c] = "handle"
    /\ err[c] = "ok"
    /\ dres' = [dres EXCEPT ![c] = "conn"]
    /\ final' = [final EXCEPT ![c] = servers]
    /\ mu' = FALSE
    /\ pc' = [pc EXCEPT ![c] = "ret"]
    /\ UNCHANGED <<initial, servers, op, i, cur, err, res, inbound, req, ctxDone,
                   start, tried, pruneLog, ncalls>>
    /\ UNCHANGED xvars

\* DialContext: the loop ran out of indexes:
\* trace.ConnectionProblem("no servers remaining to connect").
Exhausted(c) ==
    /\ pc[c] = "loop"
    /\ i[c] < 1
    /\ dres' = [dres EXCEPT ![c] = "noroute"]
    /\ final' = [final EXCEPT ![c] = servers]
    /\ mu' = FALSE
    /\ pc' = [pc EXCEPT ![c] = "ret"]
    /\ UNCHANGED <<initial, servers, op, i, cur, err, res, inbound, req, ctxDone,
                   start, tried, pruneLog, ncalls>>
    /\ UNCHANGED xvars

\* The caller of DialContext gets its result: DialContext itself, DialWebsocket
\* (tls.Client over the connection, or the wrapped error) or RoundTrip (the
\* upstream response, or the wrapped error of the underlying round trip).
\* The frame of the call is gone afterwards; only its result is kept.
Return(c) ==
    /\ pc[c] = "ret"
    /\ \E upstream \in IF op[c] = "RoundTrip" /\ dres[c] = "conn"
                       THEN {"resp", "other"} ELSE {"none"} :
         /\ res' = [res EXCEPT ![c] =
                      CASE op[c] = "DialContext" -> dres[c]
                        [] op[c] = "DialWebsocket" ->
                             IF dres[c] = "conn" THEN "tlsconn" ELSE dres[c]
                        [] OTHER -> RoundTripResult(dres[c], upstream)]
         /\ pc' = [pc EXCEPT ![c] =
                     IF /\ op[c] = "RoundTrip"
                        /\ RoundTripResult(dres[c], upstream) # "resp"
                     THEN OnRoundTripError ELSE "idle"]
    /\ op' = [op EXCEPT ![c] = "none"]
    /\ i' = [i EXCEPT ![c] = 0]
    /\ cur' = [cur EXCEPT ![c] = 0]
    /\ err' = [err EXCEPT ![c] = "none"]
    /\ dres' = [dres EXCEPT ![c] = "none"]
    /\ ctxDone' = [ctxDone EXCEPT ![c] = FALSE]
    /\ start' = [start EXCEPT ![c] = <<>>]
    /\ tried' = [tried EXCEPT ![c] = <<>>]
    /\ final' = [final EXCEPT ![c] = <<>>]
    /\ UNCHANGED <<initial, servers, mu, inbound, req, pruneLog, ncalls>>
    /\ UNCHANGED xvars

\* The caller cancels the context of a call in progress, or its deadline
\* passes. DialWebsocket dials with context.Background(), which is never done.
CancelCtx(c) ==
    /\ pc[c] \in {"forward", "lock", "loop", "handle"}
    /\ op[c] # "DialWebsocket"
    /\ ~ctxDone[c]
    /\ ctxDone' = [ctxDone EXCEPT ![c] = TRUE]
    /\ UNCHANGED <<initial, servers, mu, pc, op, i, cur, err, dres, res, inbound, req,
                   start, tried, final, pruneLog, ncalls>>
    /\ UNCHANGED xvars

Next ==
    \E c \in Callers :
        \/ CallDialContext(c)
        \/ CallDialWebsocket(c)
        \/ RoundTrip(c)
        \/ Forward(c)
        \/ Lock(c)
        \/ Attempt(c)
        \/ Prune(c)
        \/ Abort(c)
        \/ Connected(c)
        \/ Exhausted(c)
        \/ Return(c)
        \/ CancelCtx(c)

Spec == Init /\ [][Next]_vars

\* ------------------------------------------- SpecRewrite: rewriteRequest

\* The transport is not in use.
TIdle ==
    /\ initial = <<>>
    /\ servers = <<>>
    /\ mu = FALSE
    /\ pc = [c \in Callers |-> "idle"]
    /\ op = [c \in Callers |-> "none"]
    /\ i = [c \in Callers |-> 0]
    /\ cur = [c \in Callers |-> 0]
    /\ err = [c \in Callers |-> "none"]
    /\ dres = [c \in Callers |-> "none"]
    /\ res = [c \in Callers |-> "none"]
    /\ inbound = [c \in Callers |-> NoReq]
    /\ req = [c \in Callers |-> NoReq]
    /\ ctxDone = [c \in Callers |-> FALSE]
    /\ start = [c \in Callers |-> <<>>]
    /\ tried = [c \in Callers |-> <<>>]
    /\ final = [c \in Callers |-> <<>>]
    /\ pruneLog = <<>>
    /\ ncalls = 0

\* The cookie-pairs a Cookie header is made of: the two cookies the transport
\* strips, two others, a quoted value and a pair that is no valid cookie.
CookieItems ==
    {Cookie(n, "plain") : n \in {CookieName, AuthStateCookieName, "lang", "theme"}}
        \cup {Cookie(CookieName, "quoted"), Cookie("lang", "quoted"),
              Cookie("theme", "bad")}

\* The requests rewriteRequest is given.
RewriteInputs ==
    [scheme : {"http", "https"},
     host : {"app.example.com", APIDomain},
     xff : {"", "6.6.6.6"},
     remote : {"10.0.0.7"},
     cookies : UNION {[1..k -> CookieItems] : k \in 0..MaxCookies}]

RewriteInit ==
    /\ TIdle
    /\ ctor = NoCtor
    /\ SessionIdle
    /\ ar = NoAR
    /\ \E r \in RewriteInputs : rw = [NoRw EXCEPT !.orig = r]

\* rewriteRequest(r) on the request as it came in.
RewriteOnce ==
    /\ rw.n = 0
    /\ rw' = [rw EXCEPT !.once = rewriteRequest(rw.orig), !.n = 1]
    /\ UNCHANGED <<tvars, ctor, svars, ar>>

\* rewriteRequest(r) on the request it has already rewritten.
RewriteAgain ==
    /\ rw.n = 1
    /\ rw' = [rw EXCEPT !.twice = rewriteRequest(rw.once), !.n = 2]
    /\ UNCHANGED <<tvars, ctor, svars, ar>>

RewriteNext == RewriteOnce \/ RewriteAgain

SpecRewrite == RewriteInit /\ [][RewriteNext]_vars

\* --------------------------------------------------- SpecNew: newTransport

\* The configurations newTransport is given. A field that is a pointer or an
\* interface is present or nil; what the collaborators answer is given with
\* them: the access point has the host CA of the cluster asked for ("ok"), has
\* none ("noCA") or has one whose certificates do not parse ("badCA"); the web
\* session holds a certificate and key that pair ("good") or do not ("bad");
\* defaults.Transport() gives a transport or fails. identity stands for
\* identity.RouteToApp.ClusterName.
Configs ==
    [proxyClient : BOOLEAN,
     accessPoint : {"nil", "ok", "noCA", "badCA"},
     cipherSuites : 0..1,
     identity : {"nil", "root", "leaf"},
     servers : 0..1,
     ws : {"nil", "good", "bad"},
     clusterName : {"", "root", "leaf"},
     defaults : {"ok", "fails"}]

\* transportConfig.Check
CheckForgetsServers(c) ==
    IF ~c.proxyClient THEN "proxy client missing"
    ELSE IF c.accessPoint = "nil" THEN "access point missing"
    ELSE IF c.cipherSuites = 0 THEN "cipher suites missing"
    ELSE IF c.identity = "nil" THEN "identity missing"
    ELSE IF c.ws = "nil" THEN "web session missing"
    ELSE IF c.clusterName = "" THEN "cluster name missing"
    ELSE "nil"
Check(c) ==
    IF ~c.proxyClient THEN "proxy client missing"
    ELSE IF c.accessPoint = "nil" THEN "access point missing"
    ELSE IF c.cipherSuites = 0 THEN "cipher suites missing"
    ELSE IF c.identity = "nil" THEN "identity missing"
    ELSE IF c.servers = 0 THEN "servers missing"
    ELSE IF c.ws = "nil" THEN "web session missing"
    ELSE IF c.clusterName = "" THEN "cluster name missing"
    ELSE "nil"

\* apiutils.EncodeClusterName: the name encoded, under the API domain.
EncodeClusterName(n) == [hex |-> n, domain |-> APIDomain]

\* configureTLS: the pool of the host CA of the cluster the identity routes
\* to, the key pair of the web session, and as ServerName the encoded name of
\* the cluster of the configuration.
configureTLSRouteSNI(c) ==
    IF c.accessPoint = "noCA" THEN [err |-> "no cert authority", cfg |-> NoTLSConfig]
    ELSE IF c.accessPoint = "badCA" THEN [err |-> "bad cert pool", cfg |-> NoTLSConfig]
    ELSE IF c.ws = "bad"
    THEN [err |-> "failed to parse certificate or key", cfg |-> NoTLSConfig]
    ELSE [err |-> "nil",
          cfg |-> [set |-> TRUE,
                   CipherSuites |-> c.cipherSuites,
                   RootCAs |-> [type |-> "host", domain |-> c.identity],
                   Certificates |-> <<"keypair">>,
                   ServerName |-> EncodeClusterName(c.identity)]]
configureTLS(c) ==
    IF c.accessPoint = "noCA" THEN [err |-> "no cert authority", cfg |-> NoTLSConfig]
    ELSE IF c.accessPoint = "badCA" THEN [err |-> "bad cert pool", cfg |-> NoTLSConfig]
    ELSE IF c.ws = "bad"
    THEN [err |-> "failed to parse certificate or key", cfg |-> NoTLSConfig]
    ELSE [err |-> "nil",
          cfg |-> [set |-> TRUE,
                   CipherSuites |-> c.cipherSuites,
                   RootCAs |-> [type |-> "host", domain |-> c.identity],
                   Certificates |-> <<"keypair">>,
                   ServerName |-> EncodeClusterName(c.clusterName)]]

NewInit ==
    /\ TIdle
    /\ rw = NoRw
    /\ SessionIdle
    /\ ar = NoAR
    /\ \E c \in Configs : ctor = [NoCtor EXCEPT !.c = c, !.at = "check"]

\* newTransport: c.Check(); an error is returned with no transport.
NewCheck ==
    /\ ctor.at = "check"
    /\ ctor' = IF Check(ctor.c) # "nil"
               THEN [ctor EXCEPT !.at = "done", !.err = Check(ctor.c)]
               ELSE [ctor EXCEPT !.at = "tls",
                                 !.t = [set |-> TRUE,
                                        clientTLSConfig |-> NoTLSConfig,
                                        tr |-> "nil"]]
    /\ UNCHANGED <<tvars, rw, svars, ar>>

\* newTransport: t.clientTLSConfig, err = configureTLS(c).
NewConfigureTLS ==
    /\ ctor.at = "tls"
    /\ ctor' = IF configureTLS(ctor.c).err # "nil"
               THEN [ctor EXCEPT !.at = "done", !.err = configureTLS(ctor.c).err]
               ELSE [ctor EXCEPT !.at = "clone",
                                 !.t.clientTLSConfig = configureTLS(ctor.c).cfg]
    /\ UNCHANGED <<tvars, rw, svars, ar>>

\* newTransport: defaults.Transport() is cloned and given the dialer and the
\* TLS configuration; the transport is returned.
NewClone ==
    /\ ctor.at = "clone"
    /\ ctor' = IF ctor.c.defaults = "fails"
               THEN [ctor EXCEPT !.at = "done", !.err = "no default transport"]
               ELSE [ctor EXCEPT !.at = "done",
                                 !.t.tr = [DialContext |-> "t.DialContext",
                                           TLSClientConfig |-> ctor.t.clientTLSConfig],
                                 !.ret = [ctor.t EXCEPT
                                            !.tr = [DialContext |-> "t.DialContext",
                                                    TLSClientConfig |->
                                                        ctor.t.clientTLSConfig]]]
    /\ UNCHANGED <<tvars, rw, svars, ar>>

NewNext == NewCheck \/ NewConfigureTLS \/ NewClone

SpecNew == NewInit /\ [][NewNext]_vars

\* ------------------------------------------ SpecSession: NewKubeSession

\* What NewKubeSession is called with and what its collaborators answer:
\* whether the local terminal is attached to a real device, whether the
\* handshake says presence verification is required, and the step of the
\* construction that fails, if one does ("dialNoResp" is a dial that fails
\* without an HTTP response).
Failures ==
    {"none", "tls", "dial", "dialNoResp", "handshake", "terminal", "proxy",
     "auth"}

\* What the input loop reads from the local terminal, one unit at a time:
\* Ctrl-C, the byte 't', Ctrl-T, another byte, the end of input, or a read
\* error other than the end of input.
Units == {"ctrlC", "t", "ctrlT", "a", "eof", "err"}

\* meta.GetID()
SessionID == "sid"

SessionInit ==
    /\ TIdle
    /\ rw = NoRw
    /\ ctor = NoCtor
    /\ ar = NoAR
    /\ \E a \in BOOLEAN, m \in BOOLEAN, f \in Failures :
          kube = [NoKube EXCEPT !.at = "dial", !.attached = a,
                                !.mfaRequired = m, !.fail = f]
    /\ sp = [d \in Duties |-> "off"]
    /\ ext = [e \in Externals |-> NoExt]
    /\ sig = NoSig
    /\ wg = 0
    /\ term = NoTerm
    /\ strm = NoStream
    /\ stdin = NoStdin
    /\ mfa = NoMFA
    /\ nenv = 0

\* utils.CloseBroadcaster.Close: the channel C is closed by the first call,
\* under a sync.Once; a later call does nothing.
BroadcastCloseNoOnce(s) ==
    [closed |-> TRUE, calls |-> s.calls + 1, panic |-> s.panic \/ s.closed]
BroadcastClose(s) ==
    [closed |-> TRUE, calls |-> s.calls + 1, panic |-> s.panic]

\* sync.WaitGroup.Wait returns when the counter is zero.
WaitReturnsAlways(n) == TRUE
WaitReturns(n) == n = 0

\* terminal.Terminal.Close: the terminal leaves raw mode and the channels
\* handed out by Subscribe are closed; notifications not yet received are
\* gone with them.
TermClose(t) ==
    [t EXCEPT !.closes = t.closes + 1,
              !.raw = FALSE,
              !.subs = IF t.subs = "open" THEN "closed" ELSE t.subs,
              !.events = 0]

\* A control message on the session stream, with whether the send succeeded.
Ctl(k, ok) == [kind |-> k, ok |-> ok]

\* The input loop on the unit it has read: "break" leaves the loop, "loop"
\* reads again. force says whether DoForceTerminate is called first.
\* The read error that is not io.EOF leaves buf[0] zero and loops.
InputVerdictForceLoops(u) ==
    IF u = "eof" THEN [next |-> "break", force |-> FALSE]
    ELSE IF u = "ctrlC" THEN [next |-> "break", force |-> FALSE]
    ELSE IF u = "t" THEN [next |-> "loop", force |-> TRUE]
    ELSE [next |-> "loop", force |-> FALSE]
InputVerdictLeaveForces(u) ==
    IF u = "eof" THEN [next |-> "break", force |-> FALSE]
    ELSE IF u = "ctrlC" THEN [next |-> "break", force |-> TRUE]
    ELSE IF u = "t" THEN [next |-> "break", force |-> TRUE]
    ELSE [next |-> "loop", force |-> FALSE]
InputVerdict(u) ==
    IF u = "eof" THEN [next |-> "break", force |-> FALSE]
    ELSE IF u = "ctrlC" THEN [next |-> "break", force |-> FALSE]
    ELSE IF u = "t" THEN [next |-> "break", force |-> TRUE]
    ELSE [next |-> "loop", force |-> FALSE]

\* What the input loop writes to the session stream for the unit it has
\* read: the loop has no write to the stream.
Forwarded(u) == <<>>

\* The duties NewKubeSession adds to closeWait before it starts them.
Registered == {"closer", "forwarder"}

OtherSpecs == <<tvars, rw, ctor, ar>>

\* A step of the program: nothing reaches the session from outside.
Quiet == <<OtherSpecs, nenv>>

\* The failures on which NewKubeSession returns before it has started
\* anything.
ReturnsEarlyButForHandshake(f) == f \in {"tls", "dial", "terminal"}
ReturnsEarly(f) == f \in {"tls", "dial", "handshake", "terminal"}

\* NewKubeSession, lines 50-85: the TLS configuration, the dial of the join
\* endpoint, the handshake and the terminal. A failure returns (nil, err);
\* the dial that fails without a response reads resp.Body of a nil resp.
NewDial ==
    /\ kube.at = "dial"
    /\ IF ReturnsEarly(kube.fail)
       THEN /\ kube' = [kube EXCEPT !.at = "returned", !.ret = "error"]
            /\ UNCHANGED <<term, strm>>
       ELSE IF kube.fail = "dialNoResp"
       THEN /\ kube' = [kube EXCEPT !.at = "returned", !.ret = "panic"]
            /\ UNCHANGED <<term, strm>>
       ELSE /\ kube' = [kube EXCEPT !.at = "start"]
            /\ term' = [term EXCEPT !.made = TRUE, !.attached = kube.attached]
            /\ strm' = [strm EXCEPT !.handshake = (kube.fail # "handshake"),
                                    !.remote = "open",
                                    !.mfaRequired = kube.mfaRequired]
    /\ UNCHANGED <<sp, ext, sig, wg, stdin, mfa, Quiet>>

\* NewKubeSession, lines 87-144: the closer is added to closeWait and
\* started, the terminal enters raw mode if it is attached, the remote resize
\* applier is started, the local resize forwarder is added to closeWait and
\* started. Nothing can fire the signal before pipeInOut, so the steps are
\* taken together; the forwarder's subscription is taken with its start.
NewStart ==
    /\ kube.at = "start"
    /\ kube' = [kube EXCEPT !.at = "mfa"]
    /\ wg' = wg + Cardinality(Registered)
    /\ sp' = [sp EXCEPT !["closer"] = "wait", !["applier"] = "wait",
                        !["forwarder"] = "wait"]
    /\ term' = [term EXCEPT !.raw = term.attached, !.subs = "open"]
    /\ UNCHANGED <<ext, sig, strm, stdin, mfa, Quiet>>

\* if stream.MFARequired
PresenceRequiredAlways(s) == TRUE
PresenceRequired(s) == s.mfaRequired

\* NewKubeSession, lines 146-158: with stream.MFARequired the proxy and the
\* root cluster are connected to, a failure returns (nil, err), and handleMFA
\* is started.
NewMFA ==
    /\ kube.at = "mfa"
    /\ IF ~PresenceRequired(strm)
       THEN /\ kube' = [kube EXCEPT !.at = "pipe"]
            /\ UNCHANGED sp
       ELSE IF kube.fail \in {"proxy", "auth"}
       THEN /\ kube' = [kube EXCEPT !.at = "returned", !.ret = "error"]
            /\ UNCHANGED sp
       ELSE /\ kube' = [kube EXCEPT !.at = "pipe"]
            /\ sp' = [sp EXCEPT !["mfa"] = "start"]
    /\ UNCHANGED <<ext, sig, wg, term, strm, stdin, mfa, Quiet>>

\* NewKubeSession, lines 160-161: pipeInOut starts the copy and the input
\* loop, and the session is returned.
NewPipe ==
    /\ kube.at = "pipe"
    /\ kube' = [kube EXCEPT !.at = "returned", !.ret = "session"]
    /\ sp' = [sp EXCEPT !["copy"] = "read", !["input"] = "read"]
    /\ UNCHANGED <<ext, sig, wg, term, strm, stdin, mfa, Quiet>>

\* <-close.C returns once C is closed.
FiredAlways(s) == TRUE
Fired(s) == s.closed

\* The closer: <-close.C; term.Close(); closeWait.Done().
CloserRun ==
    /\ sp["closer"] = "wait"
    /\ Fired(sig)
    /\ term' = TermClose(term)
    /\ wg' = wg - 1
    /\ sp' = [sp EXCEPT !["closer"] = "done"]
    /\ UNCHANGED <<kube, ext, sig, strm, stdin, mfa, Quiet>>

\* The conversions of the resize paths: uint16(w) of the forwarder and
\* int16(size.Width) of the applier.
ToUint16(x) == x % 65536

ToInt16(x) == IF x % 65536 >= 32768 THEN (x % 65536) - 65536 ELSE x % 65536

\* The width of the local terminal after its n-th resize, as term.Size()
\* gives it, and the width the n-th resize event of the remote side carries.
LocalWidth(n) == 80 + n

RemoteWidth(n) == 100 + n

\* The resize message of the forwarder: the size term.Size() gives at the
\* moment of the send.
ResizeMsgNoSize(t, ok) == [kind |-> "resize", ok |-> ok, size |-> 0]
ResizeMsg(t, ok) ==
    [kind |-> "resize", ok |-> ok, size |-> ToUint16(LocalWidth(t.resizes))]

\* The remote resize applier, case <-close.C: return.
ApplierClosed ==
    /\ sp["applier"] = "wait"
    /\ sig.closed
    /\ sp' = [sp EXCEPT !["applier"] = "done"]
    /\ UNCHANGED <<kube, ext, sig, wg, term, strm, stdin, mfa, Quiet>>

\* The remote resize applier, case size := <-queue: a nil size returns,
\* another one is applied to the terminal.
ApplierRecv ==
    /\ sp["applier"] = "wait"
    /\ strm.rq # "idle"
    /\ IF strm.rq = "nil"
       THEN /\ sp' = [sp EXCEPT !["applier"] = "done"]
            /\ UNCHANGED term
       ELSE /\ term' = [term EXCEPT
                          !.applied = Append(term.applied,
                                             ToInt16(RemoteWidth(strm.pushed)))]
            /\ UNCHANGED sp
    /\ strm' = [strm EXCEPT !.rq = "idle"]
    /\ UNCHANGED <<kube, ext, sig, wg, stdin, mfa, Quiet>>

\* The local resize forwarder on a resize event: term.Size(), then
\* stream.Resize; an error of either returns. closeWait.Done() is deferred.
ForwarderEvent ==
    /\ sp["forwarder"] = "wait"
    /\ term.events > 0
    /\ \E sizeOK \in BOOLEAN, sendOK \in BOOLEAN :
          /\ term' = [term EXCEPT !.events = term.events - 1]
          /\ strm' = IF sizeOK
                     THEN [strm EXCEPT !.ctl = Append(strm.ctl, ResizeMsg(term, sendOK))]
                     ELSE strm
          /\ IF sizeOK /\ sendOK
             THEN UNCHANGED <<sp, wg>>
             ELSE /\ sp' = [sp EXCEPT !["forwarder"] = "done"]
                  /\ wg' = wg - 1
    /\ UNCHANGED <<kube, ext, sig, stdin, mfa, Quiet>>

\* The local resize forwarder when the subscription is closed: more is
\* false, the loop breaks.
ForwarderClosed ==
    /\ sp["forwarder"] = "wait"
    /\ term.subs = "closed"
    /\ term.events = 0
    /\ sp' = [sp EXCEPT !["forwarder"] = "done"]
    /\ wg' = wg - 1
    /\ UNCHANGED <<kube, ext, sig, term, strm, stdin, mfa, Quiet>>

\* The copy: io.Copy(term.Stdout(), stream) returns when the remote stream
\* ends or fails; close.Close() is deferred.
CopyEnd ==
    /\ sp["copy"] = "read"
    /\ strm.inflight = 0
    /\ strm.remote \in {"eof", "err"}
    /\ sig' = BroadcastClose(sig)
    /\ sp' = [sp EXCEPT !["copy"] = "done"]
    /\ UNCHANGED <<kube, ext, wg, term, strm, stdin, mfa, Quiet>>

\* The Read of io.Copy returns when the remote side has sent data; the copy
\* runs in a goroutine of its own and waits for nothing else.
CopyReadyWhenPresenceIdle(p, s) ==
    p["copy"] = "read" /\ s.inflight > 0 /\ p["mfa"] \notin {"recv", "respond"}
CopyReady(p, s) == p["copy"] = "read" /\ s.inflight > 0

\* The copy: io.Copy writes what it has read from the stream to
\* term.Stdout(). The history out keeps, for each piece of data copied, where
\* handleMFA was at that moment.
CopyData ==
    /\ CopyReady(sp, strm)
    /\ strm' = [strm EXCEPT !.inflight = strm.inflight - 1]
    /\ term' = [term EXCEPT !.out = Append(term.out, sp["mfa"])]
    /\ UNCHANGED <<kube, sp, ext, sig, wg, stdin, mfa, Quiet>>

\* The input loop: Stdin().Read(buf) has returned a unit. On the byte 't'
\* DoForceTerminate is called, and it succeeds or fails. When the loop
\* breaks the deferred close.Close() runs.
InputRead ==
    /\ sp["input"] = "read"
    /\ stdin.pending # "none"
    /\ stdin' = [stdin EXCEPT !.pending = "none", !.last = stdin.pending]
    /\ \E ok \in BOOLEAN :
          strm' = IF InputVerdict(stdin.pending).force
                  THEN [strm EXCEPT !.ctl = Append(strm.ctl, Ctl("forceTerminate", ok))]
                  ELSE [strm EXCEPT !.wr = strm.wr \o Forwarded(stdin.pending)]
    /\ IF InputVerdict(stdin.pending).next = "break"
       THEN /\ sig' = BroadcastClose(sig)
            /\ sp' = [sp EXCEPT !["input"] = "done"]
       ELSE UNCHANGED <<sig, sp>>
    /\ UNCHANGED <<kube, ext, wg, term, mfa, Quiet>>

\* An entry of the history of the presence stream: a message sent on it (a
\* challenge request, with the session id it carries, or the solver's
\* response, which is sent as the solver returned it), a challenge received
\* or a run of the solver. sent is FALSE for a send that failed.
Presence(k, sid, ok) == [kind |-> k, sid |-> sid, sent |-> ok]

\* handleMFA up to its loop: the banner is written, the ticker is made and
\* the presence stream is opened; an error of the banner or of the stream
\* returns, and the error of the stream is written to the terminal first.
MFAStart ==
    /\ sp["mfa"] = "start"
    /\ \E o \in {"ok", "bannerErr", "streamErr"} :
          IF o = "ok"
          THEN /\ sp' = [sp EXCEPT !["mfa"] = "select"]
               /\ mfa' = [mfa EXCEPT !.open = TRUE]
          ELSE /\ sp' = [sp EXCEPT !["mfa"] = "done"]
               /\ mfa' = [mfa EXCEPT !.err = o, !.shown = (o = "streamErr")]
    /\ UNCHANGED <<kube, ext, sig, wg, term, strm, stdin, Quiet>>

\* handleMFA, case <-ticker.C: the challenge request is sent.
MFATick ==
    /\ sp["mfa"] = "select"
    /\ mfa.tick
    /\ \E ok \in BOOLEAN :
          /\ mfa' = [mfa EXCEPT !.tick = FALSE,
                                !.log = Append(mfa.log,
                                               Presence("request", SessionID, ok)),
                                !.err = IF ok THEN mfa.err ELSE "send"]
          /\ sp' = [sp EXCEPT !["mfa"] = IF ok THEN "recv" ELSE "done"]
    /\ UNCHANGED <<kube, ext, sig, wg, term, strm, stdin, Quiet>>

\* handleMFA: stream.Recv(), then the solver.
MFASolve ==
    /\ sp["mfa"] = "recv"
    /\ \E o \in {"ok", "recvErr", "solverErr"} :
          /\ mfa' = [mfa EXCEPT
                       !.err = IF o = "ok" THEN mfa.err ELSE o,
                       !.log = IF o = "recvErr" THEN mfa.log
                               ELSE IF o = "solverErr"
                               THEN Append(mfa.log, Presence("challenge", "none", TRUE))
                               ELSE mfa.log \o <<Presence("challenge", "none", TRUE),
                                                 Presence("solve", "none", TRUE)>>]
          /\ sp' = [sp EXCEPT !["mfa"] = IF o = "ok" THEN "respond" ELSE "done"]
    /\ UNCHANGED <<kube, ext, sig, wg, term, strm, stdin, Quiet>>

\* handleMFA: the solver's response is sent.
MFARespond ==
    /\ sp["mfa"] = "respond"
    /\ \E ok \in BOOLEAN :
          /\ mfa' = [mfa EXCEPT !.log = Append(mfa.log,
                                               Presence("response", "none", ok)),
                                !.err = IF ok THEN mfa.err ELSE "send"]
          /\ sp' = [sp EXCEPT !["mfa"] = IF ok THEN "select" ELSE "done"]
    /\ UNCHANGED <<kube, ext, sig, wg, term, strm, stdin, Quiet>>

\* handleMFA, case <-s.close.C and case <-ctx.Done(): break outer.
MFAStop ==
    /\ sp["mfa"] = "select"
    /\ sig.closed \/ mfa.ctxDone
    /\ sp' = [sp EXCEPT !["mfa"] = "done"]
    /\ UNCHANGED <<kube, ext, sig, wg, term, strm, stdin, mfa, Quiet>>

\* KubeSession.Close: close.Close(), then closeWait.Wait().
\* KubeSession.Wait: closeWait.Wait().
ExtCall(e) ==
    /\ kube.ret = "session"
    /\ ext[e] = "idle"
    /\ ext' = [ext EXCEPT ![e] = "waiting"]
    /\ \E o \in {"Close", "Wait"} :
          sig' = IF o = "Close" THEN BroadcastClose(sig) ELSE sig
    /\ UNCHANGED <<kube, sp, wg, term, strm, stdin, mfa, Quiet>>

\* closeWait.Wait() returns.
ExtReturn(e) ==
    /\ ext[e] = "waiting"
    /\ WaitReturns(wg)
    /\ ext' = [ext EXCEPT ![e] = "returned"]
    /\ UNCHANGED <<kube, sp, sig, wg, term, strm, stdin, mfa, Quiet>>

\* The steps of the duties closeWait counts.
RegisteredNext == CloserRun \/ ForwarderEvent \/ ForwarderClosed

\* The steps of the duties: they need nothing more from outside the session
\* than what has reached it.
DutyNext ==
    \/ RegisteredNext
    \/ ApplierClosed \/ ApplierRecv
    \/ CopyData \/ CopyEnd \/ InputRead
    \/ MFAStart \/ MFATick \/ MFASolve \/ MFARespond \/ MFAStop

ProgramNext ==
    \/ NewDial \/ NewStart \/ NewMFA \/ NewPipe
    \/ DutyNext
    \/ \E e \in Externals : ExtCall(e) \/ ExtReturn(e)

\* The user types a unit.
EnvType ==
    /\ sp["input"] = "read"
    /\ stdin.pending = "none"
    /\ nenv < MaxEvents
    /\ nenv' = nenv + 1
    /\ \E u \in Units : stdin' = [stdin EXCEPT !.pending = u,
                                             !.typed = stdin.typed + 1]
    /\ UNCHANGED <<kube, sp, ext, sig, wg, term, strm, mfa, OtherSpecs>>

\* The local terminal is resized.
EnvResize ==
    /\ term.subs = "open"
    /\ nenv < MaxEvents
    /\ nenv' = nenv + 1
    /\ term' = [term EXCEPT !.events = term.events + 1,
                            !.resizes = term.resizes + 1]
    /\ UNCHANGED <<kube, sp, ext, sig, wg, strm, stdin, mfa, OtherSpecs>>

\* The remote side pushes a resize event, or ends the sequence of them.
EnvRemoteResize ==
    /\ sp["applier"] = "wait"
    /\ strm.rq = "idle"
    /\ nenv < MaxEvents
    /\ nenv' = nenv + 1
    /\ \/ strm' = [strm EXCEPT !.rq = "size", !.pushed = strm.pushed + 1]
       \/ strm' = [strm EXCEPT !.rq = "nil"]
    /\ UNCHANGED <<kube, sp, ext, sig, wg, term, stdin, mfa, OtherSpecs>>

\* The remote side sends data.
EnvRemoteData ==
    /\ sp["copy"] = "read"
    /\ strm.remote = "open"
    /\ strm.inflight = 0
    /\ nenv < MaxEvents
    /\ nenv' = nenv + 1
    /\ strm' = [strm EXCEPT !.inflight = 1]
    /\ UNCHANGED <<kube, sp, ext, sig, wg, term, stdin, mfa, OtherSpecs>>

\* The remote stream ends or fails.
EnvRemoteEnd ==
    /\ sp["copy"] = "read"
    /\ strm.remote = "open"
    /\ nenv < MaxEvents
    /\ nenv' = nenv + 1
    /\ \E o \in {"eof", "err"} : strm' = [strm EXCEPT !.remote = o]
    /\ UNCHANGED <<kube, sp, ext, sig, wg, term, stdin, mfa, OtherSpecs>>

\* The presence ticker fires. The channel of a time.Ticker holds one tick:
\* a tick that finds it full is dropped. A tick stays in the channel for an
\* interval only while handleMFA is in an operation that blocks (opening
\* the stream, Recv, the solver, Send), not while it waits in its select.
EnvTick ==
    /\ sp["mfa"] \notin {"off", "done"}
    /\ mfa.tick => sp["mfa"] # "select"
    /\ nenv < MaxEvents
    /\ nenv' = nenv + 1
    /\ mfa' = [mfa EXCEPT !.tick = TRUE, !.ticks = mfa.ticks + 1]
    /\ UNCHANGED <<kube, sp, ext, sig, wg, term, strm, stdin, OtherSpecs>>

\* The context NewKubeSession was called with is cancelled.
EnvCancel ==
    /\ sp["mfa"] \notin {"off", "done"}
    /\ ~mfa.ctxDone
    /\ nenv < MaxEvents
    /\ nenv' = nenv + 1
    /\ mfa' = [mfa EXCEPT !.ctxDone = TRUE]
    /\ UNCHANGED <<kube, sp, ext, sig, wg, term, strm, stdin, OtherSpecs>>

EnvNext ==
    \/ EnvType \/ EnvResize \/ EnvRemoteResize \/ EnvRemoteData \/ EnvRemoteEnd
    \/ EnvTick \/ EnvCancel

SessionNext == ProgramNext \/ EnvNext

SpecSession == SessionInit /\ [][SessionNext]_vars

\* ------------------------------------ SpecRequest: executeAccessRequest

\* How executeAccessRequest is called: with roles to request ("new"), with
\* the id of a request that is pending ("pending") or resolved ("resolved"),
\* with an id that does not name one request ("invalid"), or with neither
\* roles nor id ("empty").
Modes == {"new", "pending", "resolved", "invalid", "empty"}

\* The name of the request waited for, and the name of another request of
\* the same user.
AwaitedName == "req"

OtherName == "other"

\* The states of an access request.
RequestStates == {"PENDING", "APPROVED", "DENIED"}

\* An event of the watcher: its type, the name and the state of its
\* resource, and whether the resource is a *types.AccessRequestV3.
Event(t, n, s, v3) == [type |-> t, name |-> n, state |-> s, v3 |-> v3]

\* The events that do not resolve the awaited request: a put that leaves it
\* pending (its creation is one), a put and a delete of another request, a
\* put of a resource of another type, an event of an unknown type.
NoiseEvents ==
    {Event("put", AwaitedName, "PENDING", TRUE),
     Event("put", OtherName, "APPROVED", TRUE),
     Event("put", AwaitedName, "APPROVED", FALSE),
     Event("delete", OtherName, "PENDING", TRUE),
     Event("unknown", AwaitedName, "APPROVED", TRUE)}

\* What a function returns: nil or an error, the error of a state naming it.
Result(k, s) == [kind |-> k, state |-> s]

\* onRequestResolution: an error naming the state unless the request is
\* approved; then the certificates are reissued, which succeeds or fails.
onRequestResolution(s, reissueOK) ==
    IF s # "APPROVED" THEN Result("state", s)
    ELSE IF reissueOK THEN Result("nil", s)
    ELSE Result("reissue", s)

\* One turn of the loop of waitForRequestResolution on an event: "continue"
\* or what the function returns.
OnEventPendingReturns(ev, reissueOK) ==
    IF ev.type = "init" THEN Result("continue", "")
    ELSE IF ev.type = "put"
    THEN IF ~ev.v3 THEN Result("type", "")
         ELSE IF ev.name # AwaitedName
         THEN Result("continue", "")
         ELSE onRequestResolution(ev.state, reissueOK)
    ELSE IF ev.type = "delete"
    THEN IF ev.name # AwaitedName THEN Result("continue", "")
         ELSE Result("deleted", "")
    ELSE Result("continue", "")
OnEvent(ev, reissueOK) ==
    IF ev.type = "init" THEN Result("continue", "")
    ELSE IF ev.type = "put"
    THEN IF ~ev.v3 THEN Result("type", "")
         ELSE IF ev.name # AwaitedName \/ ev.state = "PENDING"
         THEN Result("continue", "")
         ELSE onRequestResolution(ev.state, reissueOK)
    ELSE IF ev.type = "delete"
    THEN IF ev.name # AwaitedName THEN Result("continue", "")
         ELSE Result("deleted", "")
    ELSE Result("continue", "")

RequestInit ==
    /\ TIdle
    /\ rw = NoRw
    /\ ctor = NoCtor
    /\ SessionIdle
    /\ \E m \in Modes, n \in BOOLEAN, s \in RequestStates \ {"PENDING"} :
          ar = [NoAR EXCEPT !.mode = m, !.noWait = n, !.main = "start",
                            !.req = CASE m = "pending" -> "PENDING"
                                      [] m = "resolved" -> s
                                      [] OTHER -> "none"]

NotRequest == <<tvars, rw, ctor, svars>>

\* executeAccessRequest up to the start of the watcher goroutine: the
\* parameters are checked; a request given by id is fetched, and if it is
\* not pending its resolution is handled at once; with waiting enabled the
\* goroutine that runs waitForRequestResolution is started.
ARStart ==
    /\ ar.main = "start"
    /\ \E reissueOK \in BOOLEAN :
          ar' = CASE ar.mode = "empty" ->
                       [ar EXCEPT !.main = "returned", !.ret = Result("parameter", "")]
                  [] ar.mode = "invalid" ->
                       [ar EXCEPT !.main = "returned", !.ret = Result("invalid", "")]
                  [] ar.mode = "resolved" ->
                       [ar EXCEPT !.main = "returned",
                                  !.ret = onRequestResolution(ar.req, reissueOK)]
                  [] OTHER ->
                       [ar EXCEPT !.main = "create",
                                  !.w = IF ar.noWait THEN "off" ELSE "start"]
    /\ UNCHANGED NotRequest

\* executeAccessRequest: a request that does not exist yet is created,
\* which succeeds or fails.
ARCreate ==
    /\ ar.main = "create"
    /\ IF ar.mode = "new"
       THEN \E ok \in BOOLEAN :
               ar' = IF ok
                     THEN [ar EXCEPT !.main = "show", !.req = "PENDING"]
                     ELSE [ar EXCEPT !.main = "returned",
                                     !.ret = Result("create", "")]
       ELSE ar' = [ar EXCEPT !.main = "show"]
    /\ UNCHANGED NotRequest

\* executeAccessRequest: the request is shown; without waiting nil is
\* returned.
ARShow ==
    /\ ar.main = "show"
    /\ ar' = IF ar.noWait
             THEN [ar EXCEPT !.main = "returned", !.ret = Result("nil", "")]
             ELSE [ar EXCEPT !.main = "wait"]
    /\ UNCHANGED NotRequest

\* executeAccessRequest: <-errChan.
ARReturn ==
    /\ ar.main = "wait"
    /\ ar.w = "done"
    /\ ar' = [ar EXCEPT !.main = "returned", !.ret = ar.wres]
    /\ UNCHANGED NotRequest

\* waitForRequestResolution: the watcher is created, or cannot be. From
\* then on the watcher is watching; its first event is the init event.
WatchStart ==
    /\ ar.w = "start"
    /\ \E ok \in BOOLEAN :
          ar' = IF ok
                THEN [ar EXCEPT !.w = "watch",
                                !.q = <<Event("init", "", "", FALSE)>>]
                ELSE [ar EXCEPT !.w = "done", !.wres = Result("watcher", "")]
    /\ UNCHANGED NotRequest

\* waitForRequestResolution, case event := <-watcher.Events().
WatchEvent ==
    /\ ar.w = "watch"
    /\ ar.q # <<>>
    /\ \E reissueOK \in BOOLEAN :
          LET r == OnEvent(Head(ar.q), reissueOK)
          IN ar' = IF r.kind = "continue"
                   THEN [ar EXCEPT !.q = Tail(ar.q), !.last = Head(ar.q)]
                   ELSE [ar EXCEPT !.q = Tail(ar.q), !.last = Head(ar.q),
                                   !.w = "done", !.wres = r]
    /\ UNCHANGED NotRequest

\* waitForRequestResolution, case <-watcher.Done().
WatchDone ==
    /\ ar.w = "watch"
    /\ ar.wdone
    /\ ar' = [ar EXCEPT !.w = "done", !.wres = Result("watcher", "")]
    /\ UNCHANGED NotRequest

\* A reviewer resolves the request, or it expires or is deleted. The event
\* reaches the watcher if it is watching.
EnvResolve ==
    /\ ar.req = "PENDING"
    /\ ar.nev < MaxWatch
    /\ \E s \in {"APPROVED", "DENIED", "deleted"} :
          LET ev == IF s = "deleted"
                    THEN Event("delete", AwaitedName, "PENDING", TRUE)
                    ELSE Event("put", AwaitedName, s, TRUE)
          IN ar' = IF ar.w = "watch"
                   THEN [ar EXCEPT !.req = s, !.nev = ar.nev + 1,
                                   !.q = Append(ar.q, ev)]
                   ELSE [ar EXCEPT !.req = s, !.nev = ar.nev + 1,
                                   !.missed = TRUE]
    /\ UNCHANGED NotRequest

\* Another event reaches the watcher.
EnvNoise ==
    /\ ar.w = "watch"
    /\ ar.nev < MaxWatch
    /\ \E ev \in NoiseEvents :
          ar' = [ar EXCEPT !.nev = ar.nev + 1, !.q = Append(ar.q, ev)]
    /\ UNCHANGED NotRequest

\* The watcher fails or is closed.
EnvWatcherDone ==
    /\ ar.w = "watch"
    /\ ~ar.wdone
    /\ ar.nev < MaxWatch
    /\ ar' = [ar EXCEPT !.nev = ar.nev + 1, !.wdone = TRUE]
    /\ UNCHANGED NotRequest

RequestNext ==
    \/ ARStart \/ ARCreate \/ ARShow \/ ARReturn
    \/ WatchStart \/ WatchEvent \/ WatchDone
    \/ EnvResolve \/ EnvNoise \/ EnvWatcherDone

SpecRequest == RequestInit /\ [][RequestNext]_vars

\* ------------------------------------------------------ claims: the dialer

Last(s) == s[Len(s)]

\* The goroutines inside the read-iterate-dial-prune sequence of DialContext.
InCritical == {c \in Callers : pc[c] \in {"loop", "handle"}}

\* The candidates whose failed attempt made DialContext prune the list.
Pruned == {pruneLog[k].failed : k \in 1..Len(pruneLog)}

\* Every attempt of the call so far failed with a connection problem.
AllConnProblems(s) == \A k \in 1..Len(s) : s[k].outcome = "connproblem"

\* C1: within one DialContext call the k-th attempt is made on the k-th
\* candidate counted from the end of the list as the call's loop found it, and
\* only after every earlier attempt of the call failed with a connection
\* problem.
C1_LastToFirst ==
    \A c \in Callers :
        \A k \in 1..Len(tried[c]) :
            /\ k <= Len(start[c])
            /\ tried[c][k].server = start[c][Len(start[c]) + 1 - k]
            /\ \A j \in 1..(k - 1) : tried[c][j].outcome = "connproblem"

\* C1 witness: a call that walked a three-server list down to its first entry.
C1_Witness ==
    \E c \in Callers :
        /\ Len(start[c]) = 3
        /\ Len(tried[c]) = 3
        /\ tried[c][3].server = start[c][1]

\* C2: the step that handles a connection problem removes exactly the failed
\* candidate from the shared list, returns nothing to the caller and leaves
\* the loop at the next candidate (the new last entry).
C2_PruneAndContinue ==
    [][\A c \in Callers :
          (pc[c] = "handle" /\ err[c] = "connproblem" /\ pc'[c] # pc[c]) =>
              /\ servers' = FilterSeq(servers, {cur[c]})
              /\ Len(servers') = Len(servers) - 1
              /\ pc'[c] = "loop"
              /\ dres'[c] = "none"
              /\ i'[c] = Len(servers')]_vars

\* C2 witness: a call that pruned one candidate and then connected to the next.
C2_Witness ==
    \E c \in Callers :
        /\ pc[c] = "ret"
        /\ dres[c] = "conn"
        /\ Len(tried[c]) = 2
        /\ tried[c][1].outcome = "connproblem"
        /\ tried[c][1].server \notin Range(servers)

\* C3: an attempt that fails with an error other than a connection problem is
\* the last attempt of its call; once handled, the call has returned that
\* error and the list it left holds the erroring candidate and every candidate
\* before it (only the candidates that failed earlier in the call are gone).
C3_OtherErrorAborts ==
    \A c \in Callers :
        /\ \A j \in 1..(Len(tried[c]) - 1) : tried[c][j].outcome = "connproblem"
        /\ (/\ tried[c] # <<>>
            /\ Last(tried[c]).outcome = "other"
            /\ pc[c] # "handle") =>
               /\ pc[c] = "ret"
               /\ dres[c] = "other"
               /\ final[c] = Prefix(start[c], Len(start[c]) + 1 - Len(tried[c]))
               /\ Last(final[c]) = Last(tried[c]).server

\* C3 witness: a call that pruned one candidate, then got another error on the
\* next one and returned it, two candidates staying in the list.
C3_Witness ==
    \E c \in Callers :
        /\ pc[c] = "ret"
        /\ dres[c] = "other"
        /\ Len(tried[c]) = 2
        /\ Len(final[c]) = 2

\* C4: a call all of whose attempts fail with a connection problem makes
\* exactly as many attempts as the list had entries, in reverse order, returns
\* "no servers remaining" and leaves the list empty; and that error is
\* returned only after all of them were attempted.
C4_Exhaustion ==
    \A c \in Callers :
        pc[c] = "ret" =>
            /\ AllConnProblems(tried[c]) =>
                 /\ dres[c] = "noroute"
                 /\ Len(tried[c]) = Len(start[c])
                 /\ [k \in 1..Len(tried[c]) |-> tried[c][k].server]
                        = Reverse(start[c])
                 /\ final[c] = <<>>
            /\ dres[c] = "noroute" =>
                 /\ AllConnProblems(tried[c])
                 /\ Len(tried[c]) = Len(start[c])

\* C4 witness: three servers, three failed attempts, no servers remaining.
C4_Witness ==
    \E c \in Callers :
        /\ pc[c] = "ret"
        /\ dres[c] = "noroute"
        /\ Len(start[c]) = 3
        /\ Len(tried[c]) = 3
        /\ servers = <<>>

\* C5 as stated: when the k-th attempt of a call on a list of N servers is the
\* first to succeed, N-k candidates were pruned and k-1 candidates survive.
C5_AsStated ==
    \A c \in Callers :
        (pc[c] = "ret" /\ dres[c] = "conn") =>
            /\ Len(start[c]) - Len(final[c]) = Len(start[c]) - Len(tried[c])
            /\ Len(final[c]) = Len(tried[c]) - 1

\* C5 amended: when the k-th attempt of a call on a list of N servers is the
\* first to succeed, k-1 candidates were pruned and the surviving list is the
\* first N-k+1 entries of the list, in order, the last of them being the server
\* that answered.
C5_SuccessLeavesPrefix ==
    \A c \in Callers :
        (pc[c] = "ret" /\ dres[c] = "conn") =>
            /\ tried[c] # <<>>
            /\ Last(tried[c]).outcome = "ok"
            /\ Len(start[c]) - Len(final[c]) = Len(tried[c]) - 1
            /\ Len(final[c]) = Len(start[c]) - Len(tried[c]) + 1
            /\ final[c] = Prefix(start[c], Len(start[c]) - Len(tried[c]) + 1)
            /\ Last(final[c]) = Last(tried[c]).server

\* C5 witness: N = 3, the second attempt succeeds.
C5_Witness ==
    \E c \in Callers :
        /\ pc[c] = "ret"
        /\ dres[c] = "conn"
        /\ Len(start[c]) = 3
        /\ Len(tried[c]) = 2
        /\ final[c] = <<1, 2>>

\* C6: removal is permanent: no step makes the list longer or puts a server
\* into it, a candidate DialContext pruned is not in the list again, and no
\* call (DialContext, DialWebsocket or the dial of a RoundTrip) attempts it.
C6_RemovalPermanent ==
    [][/\ Len(servers') <= Len(servers)
       /\ Range(servers') \subseteq Range(servers)
       /\ Pruned' \cap Range(servers') = {}
       /\ \A c \in Callers :
            Len(tried'[c]) > Len(tried[c]) =>
                Last(tried'[c]).server \notin Pruned]_vars

\* C6 witness: a DialWebsocket call that started after a candidate was pruned
\* is attempting a candidate of the shortened list.
C6_Witness ==
    \E c \in Callers :
        /\ op[c] = "DialWebsocket"
        /\ pc[c] = "handle"
        /\ Pruned # {}
        /\ Len(start[c]) < Len(initial)

\* C7: at most one goroutine is between taking a candidate and returning, and
\* it holds the mutex.
C7_MutualExclusion ==
    /\ Cardinality(InCritical) <= 1
    /\ InCritical # {} => mu

\* C7 witness: one call is dialling while another waits for the mutex.
C7_Witness ==
    \E c1, c2 \in Callers :
        /\ c1 # c2
        /\ pc[c1] = "handle"
        /\ pc[c2] = "lock"

\* C8: every removal takes out exactly the candidate whose attempt just failed
\* with a connection problem, no candidate is removed twice, and every attempt
\* is made on the last entry the list has at that moment (none is skipped).
C8_NoSkipNoDoubleRemove ==
    /\ \A k \in 1..Len(pruneLog) :
          /\ pruneLog[k].gone = {pruneLog[k].failed}
          /\ pruneLog[k].shrink = 1
          /\ pruneLog[k].cause = "connproblem"
    /\ \A j, k \in 1..Len(pruneLog) :
          j # k => pruneLog[j].failed # pruneLog[k].failed
    /\ \A c \in Callers :
          \A k \in 1..Len(tried[c]) : tried[c][k].server = tried[c][k].top

\* C8 witness: both goroutines have pruned a candidate, one call after the
\* other had started.
C8_Witness ==
    \E c1, c2 \in Callers :
        /\ c1 # c2
        /\ Len(pruneLog) >= 2
        /\ pc[c1] = "ret" /\ tried[c1] # <<>>
        /\ tried[c1][1].outcome = "connproblem"
        /\ pc[c2] = "loop" /\ tried[c2] # <<>>
        /\ tried[c2][1].outcome = "connproblem"

\* C9 as stated: a call whose context is done makes no further attempt.
C9_ContextStopsDial ==
    \A c \in Callers :
        \A k \in 1..Len(tried[c]) : ~tried[c][k].ctxDone

\* --------------------------------------------------- claims: the transport

\* C10: the request RoundTrip hands to the underlying transport has the
\* scheme "https" and the host constants.APIDomain, whatever the caller gave.
C10_ForwardedIsRewritten ==
    \A c \in Callers :
        pc[c] = "forward" =>
            /\ req[c].scheme = "https"
            /\ req[c].host = APIDomain

\* C10 witness: a request that came with another scheme and host is about to
\* be forwarded.
C10_Witness ==
    \E c \in Callers :
        /\ pc[c] = "forward"
        /\ inbound[c].scheme = "http"
        /\ inbound[c].host = "app.example.com"
        /\ req[c].host = APIDomain

\* C13: the underlying round trip of a RoundTrip call is entered only by a
\* new call, never again by a call that has had its answer; and when the
\* underlying round trip ends, RoundTrip is over: its result is the response,
\* or the error of the dial or of the upstream exchange, and no response.
C13_NoRetry ==
    [][\A c \in Callers :
          /\ (pc'[c] = "forward" /\ pc[c] # "forward") =>
                (pc[c] = "idle" /\ ncalls' = ncalls + 1)
          /\ (pc[c] = "ret" /\ op[c] = "RoundTrip" /\ pc'[c] # "ret") =>
                /\ pc'[c] = "idle"
                /\ res'[c] \in {"resp", "other", "noroute"}
                /\ dres[c] # "conn" => res'[c] = dres[c]]_vars

\* C13 witness: the dial of a RoundTrip walked over two candidates and found
\* none; the call is about to return that error.
C13_Witness ==
    \E c \in Callers :
        /\ pc[c] = "ret"
        /\ op[c] = "RoundTrip"
        /\ dres[c] = "noroute"
        /\ Len(tried[c]) = 2

\* ----------------------------------------------- claims: rewriteRequest

\* The positions of the header h that hold a cookie r.Cookies() returns and
\* whose name is neither the session cookie nor the auth state cookie.
KeptPositions(h) ==
    {k \in 1..Len(h) :
        /\ h[k].form # "bad"
        /\ h[k].name \notin {CookieName, AuthStateCookieName}}

\* The j-th smallest element of the set of numbers S.
Nth(S, j) == CHOOSE k \in S : Cardinality({m \in S : m < k}) = j - 1

C12_RewriteIdempotent ==
    rw.n = 2 =>
        /\ rw.twice.scheme = rw.once.scheme
        /\ rw.twice.host = rw.once.host
        /\ rw.twice.xff = rw.once.xff
        /\ rw.twice.cookies = rw.once.cookies

\* C12 witness: a request whose host, forwarding header and cookies the
\* first rewrite changed has been rewritten twice.
C12_Witness ==
    /\ rw.n = 2
    /\ rw.orig.host # APIDomain
    /\ rw.orig.xff # rw.once.xff
    /\ Len(rw.orig.cookies) = 4
    /\ Len(rw.once.cookies) = 2
    /\ rw.once.cookies # <<>>

\* ------------------------------------------------- claims: newTransport

\* An input newTransport requires is absent from the configuration.
InputAbsent(c) ==
    \/ ~c.proxyClient
    \/ c.accessPoint = "nil"
    \/ c.cipherSuites = 0
    \/ c.identity = "nil"
    \/ c.servers = 0
    \/ c.ws = "nil"
    \/ c.clusterName = ""

\* C14: the ServerName of the TLS configuration of a transport is the encoded
\* cluster name of the configuration, whatever cluster the identity routes
\* to; that cluster is the one whose host CA makes the trust pool.
C14_SNIIsSigningCluster ==
    ctor.t.set =>
        (ctor.t.clientTLSConfig.set =>
            /\ ctor.t.clientTLSConfig.ServerName
                   = [hex |-> ctor.c.clusterName, domain |-> APIDomain]
            /\ ctor.t.clientTLSConfig.RootCAs
                   = [type |-> "host", domain |-> ctor.c.identity])

\* C14 witness: a transport was returned whose identity routes to another
\* cluster than the one of the configuration.
C14_Witness ==
    /\ ctor.ret.set
    /\ ctor.c.clusterName = "root"
    /\ ctor.c.identity = "leaf"
    /\ ctor.ret.clientTLSConfig.ServerName.hex = "root"

\* C15: newTransport returns a transport or an error, never both and never
\* neither; it returns an error when a required input is absent, when the
\* host CA cannot be fetched or made into a pool, or when certificate and key
\* do not pair; and a transport it returns has its TLS configuration set.
C15_ConstructionFails ==
    ctor.at = "done" =>
        /\ ctor.ret.set <=> ctor.err = "nil"
        /\ (\/ InputAbsent(ctor.c)
            \/ ctor.c.accessPoint \in {"noCA", "badCA"}
            \/ ctor.c.ws = "bad") => (~ctor.ret.set /\ ctor.err # "nil")
        /\ ctor.ret.set =>
              /\ ctor.ret.clientTLSConfig.set
              /\ ctor.ret.tr.TLSClientConfig = ctor.ret.clientTLSConfig

\* C15 witness: every input was there but certificate and key did not pair;
\* newTransport returned the error and no transport.
C15_Witness ==
    /\ ctor.at = "done"
    /\ ~InputAbsent(ctor.c)
    /\ ctor.c.accessPoint = "ok"
    /\ ctor.c.ws = "bad"
    /\ ctor.err = "failed to parse certificate or key"
    /\ ~ctor.ret.set

\* ------------------------------------------------- claims: the session

\* The duty has not been started or has returned.
Exited(d) == sp[d] \in {"off", "done"}

\* The force-terminate messages sent, or tried, on the session stream.
ForceTerminates == {k \in 1..Len(strm.ctl) : strm.ctl[k].kind = "forceTerminate"}

C17_DutyEndFiresSignal ==
    \A d \in {"copy", "input", "forwarder", "applier"} :
        sp[d] = "done" => sig.closed

\* C18: when Wait or Close has returned, every duty of the session has
\* exited.
C18_WaitMeansAllExited ==
    \A e \in Externals : ext[e] = "returned" => \A d \in Duties : Exited(d)

\* C19: after the lifecycle signal has fired no duty is left waiting for
\* its own operation: while a duty has not exited, some duty can take a
\* step with what has reached the session so far.
C19_DutiesUnwind ==
    sig.closed => ((\A d \in Duties : Exited(d)) \/ ENABLED DutyNext)

Reads(u) ==
    /\ sp["input"] = "read"
    /\ stdin.pending = u
    /\ stdin'.pending = "none"

\* C21: the step of the input loop that reads the leave sequence sends
\* nothing on the session stream, ends the loop and fires the lifecycle
\* signal; no force-terminate message was sent before it, and none is sent
\* once the loop has ended.
C21_LeaveSendsNothing ==
    [][/\ Reads("ctrlC") =>
             /\ strm'.ctl = strm.ctl
             /\ \A k \in 1..Len(strm'.ctl) : strm'.ctl[k].kind # "forceTerminate"
             /\ sp'["input"] = "done"
             /\ sig'.closed
       /\ sp["input"] = "done" =>
             Cardinality({k \in 1..Len(strm'.ctl) :
                            strm'.ctl[k].kind = "forceTerminate"})
                = Cardinality(ForceTerminates)]_vars

\* C21 witness: the input loop has read the leave sequence and ended; the
\* signal has fired and no force-terminate message is on the stream.
C21_Witness ==
    /\ stdin.last = "ctrlC"
    /\ sp["input"] = "done"
    /\ sig.closed
    /\ ForceTerminates = {}

\* C22: the step of the input loop that reads a unit that is neither the
\* leave sequence nor the force-terminate sequence writes that unit to the
\* session stream, after the units written before it.
C22_InputForwarded ==
    [][\A u \in {"a", "ctrlT"} :
          Reads(u) => strm'.wr = Append(strm.wr, u)]_vars

\* C23: the terminal is in raw mode only if it is attached to a real device,
\* and it is not left in raw mode by a construction that failed: when
\* NewKubeSession has returned without a session, of which nobody can fire
\* the signal that closes the terminal, the terminal is not in raw mode.
C23_RawModeExited ==
    /\ term.raw => term.attached
    /\ (kube.at = "returned" /\ kube.ret # "session") => ~term.raw

\* C24: in a session whose handshake did not require presence verification
\* handleMFA is not started, no presence stream is opened and no presence
\* message is sent.
C24_PresenceOnlyIfRequired ==
    ~strm.mfaRequired =>
        /\ sp["mfa"] = "off"
        /\ ~mfa.open
        /\ mfa.log = <<>>

\* C24 witness: a session whose handshake did not require presence
\* verification was returned and has run until its copy ended.
C24_Witness ==
    /\ kube.ret = "session"
    /\ ~strm.mfaRequired
    /\ sp["copy"] = "done"
    /\ sp["mfa"] = "off"

\* The messages sent, or tried, on the presence stream.
Sends(l) == {k \in 1..Len(l) : l[k].kind \in {"request", "response"}}

\* The round trips completed on the presence stream.
RoundTrips(l) == {k \in 1..Len(l) : l[k].kind = "response" /\ l[k].sent}

\* The order of a round trip.
RoundTripOrder == <<"request", "challenge", "solve", "response">>

\* C25: the history of the presence stream is a run of round trips, each in
\* the order request, challenge, solver, response; no more round trips have
\* started than ticks have fired; and with no failure of the solver or the
\* stream, when the loop waits with no tick pending, as many round trips
\* have been completed as ticks have fired.
C25_TicksAreRoundTrips ==
    /\ \A k \in 1..Len(mfa.log) :
          mfa.log[k].kind = RoundTripOrder[((k - 1) % 4) + 1]
    /\ Cardinality({k \in 1..Len(mfa.log) : mfa.log[k].kind = "request"})
          <= mfa.ticks
    /\ (mfa.err = "nil" /\ sp["mfa"] = "select" /\ ~mfa.tick) =>
          Cardinality(RoundTrips(mfa.log)) = mfa.ticks

\* C26: once the lifecycle signal has fired, no challenge request and no
\* challenge response is sent on the presence stream.
C26_NoSendAfterSignal ==
    [][sig.closed => Sends(mfa'.log) = Sends(mfa.log)]_vars

\* C27: when an operation of handleMFA has failed, the loop has stopped,
\* the error has been shown, and the lifecycle signal has fired.
C27_PresenceFailureEndsSession ==
    mfa.err # "nil" =>
        /\ sp["mfa"] = "done"
        /\ mfa.shown
        /\ sig.closed

\* C28: every message sent on the presence stream carries the identifier
\* of the session.
C28_MessagesCarrySessionID ==
    \A k \in Sends(mfa.log) : mfa.log[k].sid = SessionID

\* C29: no control message is on the session stream and no duty has been
\* started unless the handshake of the session stream has completed.
C29_HandshakeFirst ==
    (strm.ctl # <<>> \/ \E d \in Duties : sp[d] # "off") => strm.handshake

\* C29 witness: after the handshake a resize message and a force-terminate
\* message have been sent.
C29_Witness ==
    /\ strm.handshake
    /\ \E k \in 1..Len(strm.ctl) : strm.ctl[k].kind = "resize"
    /\ ForceTerminates # {}

C31_TerminalClosedOnce ==
    /\ term.closes <= 1
    /\ term.closes >= 1 => sig.closed
    /\ (sig.closed /\ term.closes = 0) => ENABLED CloserRun
    /\ sp["closer"] = "done" => term.closes = 1

\* C31 witness: the copy, the input loop and a caller of Close have fired
\* the signal, and the terminal has been closed once.
C31_Witness ==
    /\ sig.calls >= 3
    /\ ext["e1"] # "idle"
    /\ term.closes = 1

\* The step in which the local resize forwarder receives a notification.
ForwarderTakes ==
    /\ sp["forwarder"] = "wait"
    /\ term'.events = term.events - 1
    /\ term'.closes = term.closes

\* The step in which the remote resize applier receives a resize event.
ApplierTakes ==
    /\ sp["applier"] = "wait"
    /\ strm.rq = "size"
    /\ strm'.rq = "idle"

\* The resize messages sent, or tried, on the session stream.
ResizeMsgs(l) == {k \in 1..Len(l) : l[k].kind = "resize"}

C33_TriggerIsCtrlT ==
    [][/\ Len(strm'.ctl) > Len(strm.ctl)
             /\ strm'.ctl[Len(strm'.ctl)].kind = "forceTerminate"
          => Reads("ctrlT")
       /\ \A u \in {"t", "a"} :
             Reads(u) => strm'.ctl = strm.ctl /\ sp'["input"] = "read"]_vars

\* ----------------------------------------- claims: executeAccessRequest

\* C34: no event that resolves a request created by executeAccessRequest
\* occurs while the watcher of waitForRequestResolution is not watching.
C34_WatcherBeforeCreate ==
    ar.mode = "new" => ~ar.missed

\* The event is one waitForRequestResolution keeps waiting across.
Skipped(ev) ==
    \/ ev.type = "init"
    \/ ev.type = "put" /\ ev.v3 /\ (ev.name # AwaitedName \/ ev.state = "PENDING")
    \/ ev.type = "delete" /\ ev.name # AwaitedName

\* C35: the loop of waitForRequestResolution goes on after an event it
\* skips; on a put of the awaited request that is not pending it returns
\* nil only if the state is approved and else an error naming the state; on
\* a delete of the awaited request and on a resource of another type it
\* returns an error; it returns on nothing else but the end of the watcher,
\* with the watcher's error.
C35_WaitLoop ==
    [][(ar.w = "watch" /\ ar' # ar) =>
          IF Len(ar'.q) < Len(ar.q)
          THEN LET ev == Head(ar.q)
               IN /\ Skipped(ev) => ar'.w = "watch"
                  /\ ar'.w = "done" =>
                        \/ /\ ev.type = "put" /\ ev.v3 /\ ev.name = AwaitedName
                           /\ ev.state # "PENDING"
                           /\ ar'.wres.kind = "nil" => ev.state = "APPROVED"
                           /\ ev.state # "APPROVED" =>
                                 ar'.wres = [kind |-> "state", state |-> ev.state]
                        \/ /\ ev.type = "delete" /\ ev.name = AwaitedName
                           /\ ar'.wres.kind = "deleted"
                        \/ /\ ev.type = "put" /\ ~ev.v3
                           /\ ar'.wres.kind = "type"
          ELSE ar'.w = "done" => (ar.wdone /\ ar'.wres.kind = "watcher")]_vars

\* C35 witness: the watcher skipped events, then took the put that
\* approved the awaited request, and executeAccessRequest returned nil.
C35_Witness ==
    /\ ar.nev >= 2
    /\ ar.last = [type |-> "put", name |-> AwaitedName, state |-> "APPROVED",
                  v3 |-> TRUE]
    /\ ar.ret.kind = "nil"

\* ------------------------------------- claims: the dialer's shared list

\* C36: in every state the shared server list is a prefix of the list the
\* transport was constructed with, and a step that changes the list drops
\* exactly its last entry.
C36_ServersIsPrefix ==
    [][/\ servers' = Prefix(initial, Len(servers'))
       /\ servers' # servers => servers' = Prefix(servers, Len(servers) - 1)]_vars

\* C36 witness: two calls have both pruned and returned, and a proper,
\* non-empty prefix of the constructed list is left.
C36_Witness ==
    /\ \A c \in Callers :
          pc[c] = "ret" /\ tried[c] # <<>> /\ tried[c][1].outcome = "connproblem"
    /\ Len(pruneLog) >= 2
    /\ 0 < Len(servers) /\ Len(servers) < Len(initial)
    /\ servers = Prefix(initial, Len(servers))

\* --------------------------------- claims: the session's start and end

\* C37: when the dial of the join endpoint has failed, with or without an
\* HTTP response, NewKubeSession has returned an error and no session, and
\* no duty has been started.
C37_DialFailureReturnsError ==
    (kube.at = "returned" /\ kube.fail \in {"dial", "dialNoResp"}) =>
        /\ kube.ret = "error"
        /\ \A d \in Duties : sp[d] = "off"

\* C38: when Wait or Close has returned, the lifecycle signal has fired and
\* the closer has closed the terminal and exited.
C38_WaitAfterTerminalClosed ==
    \A e \in Externals :
        ext[e] = "returned" =>
            /\ sig.closed
            /\ term.closes >= 1
            /\ sp["closer"] = "done"

\* C38 witness: Wait has returned in a session whose signal was fired once,
\* by the input loop as it ended, and whose terminal was closed.
C38_Witness ==
    /\ ext["e1"] = "returned"
    /\ sig.calls = 1 /\ sp["input"] = "done"
    /\ term.closes = 1

\* C39: the step of the input loop whose read fails, at the end of input
\* or with another error, sends nothing on the session stream, ends the
\* loop and fires the lifecycle signal.
C39_ReadFailureEndsLoop ==
    [][\A u \in {"eof", "err"} :
          Reads(u) =>
             /\ strm'.ctl = strm.ctl
             /\ sp'["input"] = "done"
             /\ sig'.closed]_vars

====
